---- MODULE Spec2Model ----
(***************************************************************************)
(* Model of the Disney dining alert bot (src/main.py, src/Main.py): the    *)
(* dining_requests table, the availability_checker poll loop run by        *)
(* discord.ext.tasks, and the handlers that write the table.               *)
(*                                                                         *)
(* The event loop is single threaded: a coroutine gives up control only at *)
(* an await.  availability_checker awaits check_availability and           *)
(* user.send, so one action covers the code between two of these awaits.   *)
(***************************************************************************)
EXTENDS Integers, Sequences, FiniteSets, TLC

\* ---------------------------------------------------------------- bounds
MaxRequests == 2
NumUsers    == 2
MaxSlots    == 1
MaxLocations == 2
MaxItems    == 1
MaxTimes    == 6

\* ------------------------------------------------------ program constants
DisplayCount == 5
SessionTimeout == 30
PartyMin == 1
PartyMax == 20
ResultLimit == 10
DiscordLimit == 25

IDs   == 1..MaxRequests
Users == 1..NumUsers

\* What one entry of the list returned by check_availability can be: a dict
\* with a 'time' key, or anything else the source put in the list.
SlotKinds == {"slot", "malformed"}

RECURSIVE SeqsUpTo(_, _)
SeqsUpTo(S, n) ==
  IF n = 0 THEN {<<>>}
  ELSE LET shorter == SeqsUpTo(S, n - 1)
       IN shorter \cup {Append(s, x) : s \in {t \in shorter : Len(t) = n - 1}, x \in S}

\* Results of awaiting check_availability: a list, or an exception.
CheckResults ==
  {[raised |-> FALSE, value |-> s] : s \in SeqsUpTo(SlotKinds, MaxSlots)}
    \cup {[raised |-> TRUE, value |-> <<>>]}
\* Results of self.get_user: a User from the cache, or None.
UserResults == {"User", "None"}
\* Results of awaiting user.send.
SendResults == {"ok", "Forbidden", "HTTPException"}
\* Results of a sqlite3 statement.
DbResults == {"ok", "OperationalError"}

\* Subclasses of Exception that the body of the for loop can raise.
ExceptionClasses == {"Exception", "TypeError", "HTTPException", "OperationalError"}

Min(a, b) == IF a < b THEN a ELSE b

VARIABLES
  rows,          \* table dining_requests, in id order
  task,          \* state of the availability_checker loop task
  ready,         \* the client's ready event
  due,           \* the loop interval has elapsed
  requests,      \* availability_checker: local `requests`
  i,             \* availability_checker: position of the for loop
  pc,            \* availability_checker: await it is suspended at
  availability,  \* availability_checker: local `availability`
  running,       \* executions of availability_checker in progress
  completed,     \* the last execution ran to the end of its for loop
  snapLen,       \* number of rows when `requests` was read
  resolvedAtSnap,\* ids inactive at some read of `requests`
  checks,        \* check_availability calls per id in this execution
  outcome,       \* how the iteration of each id ended in this execution
  deactCalls,    \* ids passed to deactivate_request in this execution
  notified,      \* ids for which user.send was ever called
  confirmed,     \* ids for which user.send ever returned
  stored,        \* ids for which deactivate_request returned after a send
  everAvail,     \* ids for which check_availability ever returned slots
  inflight,      \* check_availability calls made and not yet returned
  log,           \* levels logged by the iteration of each id in this execution
  wire,          \* the message of the send in flight has reached the owner
  delivered,     \* ids whose message ever reached the owner
  op,            \* last call made by a harness, with its inputs and result
  logged_in,     \* DisneyWebScraper.logged_in
  session,       \* DisneyWebScraper.session is not None
  logins,        \* calls of DisneyWebScraper.login made by this process
  columns        \* columns of table dining_requests in the file, in order

vars == <<rows, task, ready, due, requests, i, pc, availability, running,
          completed, snapLen, resolvedAtSnap, checks, outcome, deactCalls,
          notified, confirmed, stored, everAvail, inflight, log, wire,
          delivered, op, logged_in, session, logins, columns>>

\* Fields of the client of the external source.  availability_checker and
\* the Database never read them.
clientVars == <<logged_in, session, logins>>

\* Variables of the poll loop, which the store-level actions leave alone.
pollVars == <<task, ready, due, requests, i, pc, availability, running,
              completed, snapLen, resolvedAtSnap, checks, outcome,
              deactCalls, notified, confirmed, stored, everAvail, inflight,
              log, wire, delivered>>

Outcomes == {"none", "empty", "check_error", "no_user", "build_error",
             "forbidden", "send_error", "resolved", "store_error", "timeout"}

LogLevels == {"info", "warning", "error"}

\* ------------------------------------------------------------- Database
\* CREATE TABLE IF NOT EXISTS / ALTER TABLE ADD COLUMN: existing rows stay.
init_db_reset(t) == [k \in DOMAIN t |-> [t[k] EXCEPT !.active = 1]]

init_db_recreate(t) == <<>>

init_db(t) == t

\* INSERT: id is AUTOINCREMENT, active takes its DEFAULT 1.
add_request(t, user_id, party_size, requested_date, meal_period) ==
  Append(t, [id |-> Len(t) + 1, user_id |-> user_id,
             party_size |-> party_size, requested_date |-> requested_date,
             meal_period |-> meal_period, active |-> 1])

get_active_requests_all(t) == t

\* SELECT * FROM dining_requests WHERE active = 1
get_active_requests(t) == SelectSeq(t, LAMBDA r : r.active = 1)

deactivate_request_noop(t, request_id) == t

deactivate_request_toggle(t, request_id) ==
  [k \in DOMAIN t |->
     IF t[k].id = request_id THEN [t[k] EXCEPT !.active = 1 - @] ELSE t[k]]

\* UPDATE dining_requests SET active = 0 WHERE id = ?
deactivate_request(t, request_id) ==
  [k \in DOMAIN t |->
     IF t[k].id = request_id THEN [t[k] EXCEPT !.active = 0] ELSE t[k]]

RowIds(s) == {s[k].id : k \in DOMAIN s}

\* Columns of CREATE TABLE dining_requests, in order.
Columns == <<"id", "user_id", "location", "location_id", "restaurant_id",
             "restaurant_name", "party_size", "requested_date", "meal_period",
             "created_at", "active">>

ColumnSet == {Columns[k] : k \in DOMAIN Columns}

\* Columns of a dining_requests table that was made before the column
\* location_id existed, the "existing databases" init_db alters.
LegacyColumns == SelectSeq(Columns, LAMBDA c : c # "location_id")

\* init_db on the columns of the table in the file: CREATE TABLE IF NOT
\* EXISTS makes the table when the file has none, and ALTER TABLE ADD
\* COLUMN appends location_id as the last column when the table lacks it
\* (its OperationalError is passed over when the table has it).
init_db_columns(cols) ==
  LET created == IF cols = <<>> THEN Columns ELSE cols
  IN IF \E k \in DOMAIN created : created[k] = "location_id"
     THEN created
     ELSE Append(created, "location_id")

\* Keys of the dict get_active_requests builds from a row of SELECT *:
\* key k is given row[k - 1].
RowKeys == <<"id", "user_id", "location", "location_id", "restaurant_id",
             "restaurant_name", "party_size", "requested_date", "meal_period",
             "created_at", "active">>

\* The column of the table whose value get_active_requests returns under
\* key f, SELECT * giving the columns in the order of the table.
FieldSource(cols, f) ==
  cols[CHOOSE k \in DOMAIN RowKeys : RowKeys[k] = f]

\* The harness has made no call on the store yet.
NoOp == [name |-> "none", id |-> 0, prior |-> -1, result |-> "none"]

\* ------------------------------------------- availability_checker: tests
HasAvailability_always(a) == TRUE

\* `if availability:`
HasAvailability(a) == Len(a) > 0

\* `if user:`
UserFound(u) == u # "None"

\* ", ".join([time['time'] for time in availability[:5]]) raises TypeError
\* or KeyError when one of the first five entries has no 'time'.
BuildRaises(a) ==
  \E k \in 1..Min(Len(a), DisplayCount) : a[k] = "malformed"

ShouldDeactivate_any(s) == TRUE

ShouldDeactivate_forbidden(s) == s \in {"ok", "Forbidden"}

\* deactivate_request is the statement after `await user.send(embed=embed)`
\* inside the inner try: it runs when send returned.
ShouldDeactivate(s) == s = "ok"

Handler_base_fatal(e) ==
  IF e = "Forbidden" THEN "inner"
  ELSE IF e = "Exception" THEN "propagates"
  ELSE "outer"

Handler_inner_only(e) == IF e = "Forbidden" THEN "inner" ELSE "propagates"

\* Which except clause takes an exception raised in the body of the loop:
\* `except discord.Forbidden` around send and deactivate_request, then
\* `except Exception` around the whole iteration.
Handler(e) ==
  IF e = "Forbidden" THEN "inner"
  ELSE IF e \in ExceptionClasses THEN "outer"
  ELSE "propagates"

ForLoopSequence_live(reqs, t) == get_active_requests(t)

\* `for request in requests` walks the list read before the loop.
ForLoopSequence(reqs, t) == reqs

NextIndex_retry(k, o) == IF o = "check_error" THEN k ELSE k + 1

\* The for loop moves to the next element whatever the iteration did.
NextIndex(k, o) == k + 1

CanStartCycle_overlap == task \in {"sleep", "iter"} /\ due

\* tasks.loop runs the coroutine in one task: the next call is made after
\* the previous one returned and the interval has elapsed.
CanStartCycle == task = "sleep" /\ due

Cur == requests[i]

\* ---------------------------------------------------------------- Init
\* The poll loop and the client as __init__ leaves them.
PollInit ==
  /\ task = "unstarted"
  /\ ready = FALSE
  /\ due = FALSE
  /\ requests = <<>>
  /\ i = 0
  /\ pc = "none"
  /\ availability = <<>>
  /\ running = 0
  /\ completed = FALSE
  /\ snapLen = 0
  /\ resolvedAtSnap = {}
  /\ checks = [id \in IDs |-> 0]
  /\ outcome = [id \in IDs |-> "none"]
  /\ deactCalls = {}
  /\ notified = {}
  /\ confirmed = {}
  /\ stored = {}
  /\ everAvail = {}
  /\ inflight = 0
  /\ log = [id \in IDs |-> {}]
  /\ wire = FALSE
  /\ delivered = {}
  /\ logged_in = FALSE
  /\ session = FALSE
  /\ logins = 0

Init ==
  /\ rows = init_db(<<>>)
  /\ columns = init_db_columns(<<>>)
  /\ op = NoOp
  /\ PollInit

\* ------------------------------------------------------------- actions
\* setup_hook: self.availability_checker.start().  The login attempt that
\* precedes it writes only the client's own fields, which the loop never
\* reads; ClientSetupHook follows these fields.
SetupHook ==
  /\ task = "unstarted"
  /\ task' = "before_loop"
  /\ UNCHANGED <<rows, ready, due, requests, i, pc, availability, running,
                 completed, snapLen, resolvedAtSnap, checks, outcome,
                 deactCalls, notified, confirmed, stored, everAvail>>
  /\ UNCHANGED <<inflight, log, wire, delivered, op>>
  /\ UNCHANGED clientVars
  /\ UNCHANGED columns

\* The client becomes ready (on_ready is dispatched).
OnReady ==
  /\ ~ready
  /\ ready' = TRUE
  /\ UNCHANGED <<rows, task, due, requests, i, pc, availability, running,
                 completed, snapLen, resolvedAtSnap, checks, outcome,
                 deactCalls, notified, confirmed, stored, everAvail>>
  /\ UNCHANGED <<inflight, log, wire, delivered, op>>
  /\ UNCHANGED clientVars
  /\ UNCHANGED columns

wait_until_ready_returns_at_once(r) == TRUE

\* await self.wait_until_ready() returns when the ready event is set.
wait_until_ready_returns(r) == r

\* before_availability_checker: await self.wait_until_ready(); the first
\* call of the loop body follows at once.
BeforeLoop ==
  /\ task = "before_loop"
  /\ wait_until_ready_returns(ready)
  /\ task' = "sleep"
  /\ due' = TRUE
  /\ UNCHANGED <<rows, ready, requests, i, pc, availability, running,
                 completed, snapLen, resolvedAtSnap, checks, outcome,
                 deactCalls, notified, confirmed, stored, everAvail>>
  /\ UNCHANGED <<inflight, log, wire, delivered, op>>
  /\ UNCHANGED clientVars
  /\ UNCHANGED columns

\* Five minutes have passed since the last call was scheduled.
Tick ==
  /\ task \in {"sleep", "iter"}
  /\ ~due
  /\ due' = TRUE
  /\ UNCHANGED <<rows, task, ready, requests, i, pc, availability, running,
                 completed, snapLen, resolvedAtSnap, checks, outcome,
                 deactCalls, notified, confirmed, stored, everAvail>>
  /\ UNCHANGED <<inflight, log, wire, delivered, op>>
  /\ UNCHANGED clientVars
  /\ UNCHANGED columns

\* Number of check_availability calls that return in the current step.
Returned == IF pc \in {"check", "hung"} THEN 1 ELSE 0

\* The for loop reaches element n of seq, or its end; run counts the
\* executions in progress, this one included, and fl the calls in flight.
EnterIteration(seq, n, cnt, run, fl) ==
  /\ requests' = seq
  /\ availability' = <<>>
  /\ wire' = FALSE
  /\ IF n <= Len(seq)
     THEN /\ task' = "iter"
          /\ i' = n
          /\ pc' = "check"
          /\ checks' = [cnt EXCEPT ![seq[n].id] = Min(@ + 1, 2)]
          /\ completed' = FALSE
          /\ running' = run
          /\ inflight' = Min(fl + 1, 2)
     ELSE /\ task' = "sleep"
          /\ i' = 0
          /\ pc' = "none"
          /\ checks' = cnt
          /\ completed' = TRUE
          /\ running' = run - 1
          /\ inflight' = fl

\* The iteration of Cur ends with outcome o, the table being t.
FinishIteration(o, t) ==
  /\ rows' = t
  /\ outcome' = [outcome EXCEPT ![Cur.id] = o]
  /\ EnterIteration(ForLoopSequence(requests, t), NextIndex(i, o), checks,
                    running, inflight - Returned)

\* An exception e leaves the iteration of Cur: the outer except logs it
\* with logger.error, or it leaves availability_checker and the loop task
\* ends.  lg holds the levels the iteration logged before.
RaiseInIteration(e, o, t, lg) ==
  IF Handler(e) = "outer"
  THEN /\ FinishIteration(o, t)
       /\ log' = [log EXCEPT ![Cur.id] = lg \cup {"error"}]
  ELSE /\ rows' = t
       /\ outcome' = [outcome EXCEPT ![Cur.id] = o]
       /\ log' = [log EXCEPT ![Cur.id] = lg]
       /\ task' = "failed"
       /\ pc' = "none"
       /\ i' = 0
       /\ running' = running - 1
       /\ inflight' = inflight - Returned
       /\ availability' = <<>>
       /\ wire' = FALSE
       /\ UNCHANGED <<requests, checks, completed>>

\* availability_checker is called: requests = self.db.get_active_requests()
\* and the for loop starts.  A sqlite3 error leaves the coroutine, and
\* tasks.loop ends the task.
StartCycle ==
  /\ CanStartCycle
  /\ due' = FALSE
  /\ \E r \in DbResults :
       IF r = "ok"
       THEN /\ snapLen' = Len(rows)
            /\ resolvedAtSnap' =
                 resolvedAtSnap \cup {id \in RowIds(rows) : rows[id].active = 0}
            /\ outcome' = [id \in IDs |-> "none"]
            /\ log' = [id \in IDs |-> {}]
            /\ deactCalls' = {}
            /\ EnterIteration(get_active_requests(rows), 1,
                              [id \in IDs |-> 0], Min(running + 1, 2), inflight)
       ELSE /\ task' = "failed"
            /\ completed' = FALSE
            /\ UNCHANGED <<requests, i, pc, availability, running, snapLen,
                           resolvedAtSnap, checks, outcome, deactCalls,
                           inflight, log, wire>>
  /\ UNCHANGED <<rows, ready, notified, confirmed, stored, everAvail,
                 delivered, op>>
  /\ UNCHANGED clientVars
  /\ UNCHANGED columns

\* await self.disney_api.check_availability(...) returns or raises; then
\* the code up to `await user.send(embed=embed)` runs.
CheckReturns ==
  /\ task = "iter"
  /\ pc = "check"
  /\ \E res \in CheckResults, u \in UserResults :
       IF res.raised
       THEN /\ RaiseInIteration("Exception", "check_error", rows, {})
            /\ UNCHANGED <<notified, everAvail>>
       ELSE /\ everAvail' = IF Len(res.value) > 0
                            THEN everAvail \cup {Cur.id} ELSE everAvail
            /\ IF ~HasAvailability(res.value)
               THEN /\ FinishIteration("empty", rows)
                    /\ UNCHANGED <<notified, log>>
               ELSE IF ~UserFound(u)
               THEN /\ FinishIteration("no_user", rows)
                    /\ UNCHANGED <<notified, log>>
               ELSE IF BuildRaises(res.value)
               THEN /\ RaiseInIteration("TypeError", "build_error", rows, {})
                    /\ UNCHANGED notified
               ELSE /\ pc' = "send"
                    /\ availability' = res.value
                    /\ notified' = notified \cup {Cur.id}
                    /\ inflight' = inflight - Returned
                    /\ UNCHANGED <<rows, task, requests, i, running,
                                   completed, checks, outcome, log, wire>>
  /\ UNCHANGED <<ready, due, snapLen, resolvedAtSnap, deactCalls, confirmed,
                 stored, delivered, op>>
  /\ UNCHANGED clientVars
  /\ UNCHANGED columns

\* The source does not answer the request that check_availability awaits.
SourceHangs ==
  /\ task = "iter"
  /\ pc = "check"
  /\ pc' = "hung"
  /\ UNCHANGED <<rows, task, ready, due, requests, i, availability, running,
                 completed, snapLen, resolvedAtSnap, checks, outcome,
                 deactCalls, notified, confirmed, stored, everAvail>>
  /\ UNCHANGED <<inflight, log, wire, delivered, op>>
  /\ UNCHANGED clientVars
  /\ UNCHANGED columns

TimeoutExpires_never(total) == FALSE

\* aiohttp.ClientTimeout(total=30): the request is ended with
\* asyncio.TimeoutError once `total` seconds have passed.
TimeoutExpires(total) == total > 0

\* The session timeout ends the request nobody answers; check_availability
\* catches the TimeoutError and returns [], so `if availability:` is false.
CheckTimeout ==
  /\ task = "iter"
  /\ pc = "hung"
  /\ TimeoutExpires(SessionTimeout)
  /\ IF ~HasAvailability(<<>>)
     THEN FinishIteration("timeout", rows)
     ELSE /\ pc' = "send"
          /\ inflight' = inflight - Returned
          /\ UNCHANGED <<rows, task, requests, i, running, completed, checks,
                         outcome, availability, wire>>
  /\ UNCHANGED <<ready, due, snapLen, resolvedAtSnap, deactCalls, notified,
                 confirmed, stored, everAvail, log, delivered, op>>
  /\ UNCHANGED clientVars
  /\ UNCHANGED columns

\* Discord hands the message of the send in flight to its owner, before
\* the response reaches the bot.
Deliver ==
  /\ task = "iter"
  /\ pc = "send"
  /\ ~wire
  /\ wire' = TRUE
  /\ delivered' = delivered \cup {Cur.id}
  /\ UNCHANGED <<rows, task, ready, due, requests, i, pc, availability,
                 running, completed, snapLen, resolvedAtSnap, checks, outcome,
                 deactCalls, notified, confirmed, stored, everAvail>>
  /\ UNCHANGED <<inflight, log, op>>
  /\ UNCHANGED clientVars
  /\ UNCHANGED columns

SuccessLogged_before_store(s, d) == s = "ok"

\* logger.info("Sent availability alert ...") is the statement after
\* deactivate_request inside the inner try.
SuccessLogged(s, d) == s = "ok" /\ d = "ok"

\* await user.send(embed=embed) returns or raises; then
\* self.db.deactivate_request(request['id']) and the except clauses run.
SendReturns ==
  /\ task = "iter"
  /\ pc = "send"
  /\ \E s \in SendResults, d \in DbResults :
       /\ s = "Forbidden" => ~wire
       /\ confirmed' = IF s = "ok" THEN confirmed \cup {Cur.id} ELSE confirmed
       /\ delivered' = IF s = "ok" THEN delivered \cup {Cur.id} ELSE delivered
       /\ deactCalls' = IF ShouldDeactivate(s)
                        THEN deactCalls \cup {Cur.id} ELSE deactCalls
       /\ stored' = IF s = "ok" /\ ShouldDeactivate(s) /\ d = "ok"
                    THEN stored \cup {Cur.id} ELSE stored
       /\ LET t == IF ShouldDeactivate(s) /\ d = "ok"
                   THEN deactivate_request(rows, Cur.id) ELSE rows
              o == IF s = "ok"
                   THEN (IF d = "ok" THEN "resolved" ELSE "store_error")
                   ELSE IF s = "Forbidden" THEN "forbidden" ELSE "send_error"
              \* the exception that leaves the inner try, if any
              e == IF s # "ok" THEN s
                   ELSE IF ShouldDeactivate(s) /\ d # "ok" THEN d
                   ELSE "none"
              lg == IF SuccessLogged(s, d) THEN {"info"} ELSE {}
          IN IF e = "none"
             THEN /\ FinishIteration(o, t)
                  /\ log' = [log EXCEPT ![Cur.id] = lg]
             ELSE IF Handler(e) = "inner"
             THEN /\ FinishIteration(o, t)
                  /\ log' = [log EXCEPT ![Cur.id] = lg \cup {"warning"}]
             ELSE RaiseInIteration(e, o, t, lg)
  /\ UNCHANGED <<ready, due, snapLen, resolvedAtSnap, notified, everAvail, op>>
  /\ UNCHANGED clientVars
  /\ UNCHANGED columns

\* PartyModal.on_submit stores a request of user u: the inputs passed its
\* tests.
AddRequest ==
  /\ Len(rows) < MaxRequests
  /\ \E u \in Users :
       rows' = add_request(rows, u, PartyMin, [wellformed |-> TRUE, day |-> 1],
                           "Dinner")
  /\ UNCHANGED <<task, ready, due, requests, i, pc, availability, running,
                 completed, snapLen, resolvedAtSnap, checks, outcome,
                 deactCalls, notified, confirmed, stored, everAvail>>
  /\ UNCHANGED <<inflight, log, wire, delivered, op>>
  /\ UNCHANGED clientVars
  /\ UNCHANGED columns

\* The process ends and is started again: DisneyDiningBot.__init__ builds
\* Database(), which runs init_db on the same file.
Restart ==
  /\ task # "unstarted"
  /\ rows' = init_db(rows)
  /\ task' = "unstarted"
  /\ ready' = FALSE
  /\ due' = FALSE
  /\ requests' = <<>>
  /\ i' = 0
  /\ pc' = "none"
  /\ availability' = <<>>
  /\ running' = 0
  /\ completed' = FALSE
  /\ checks' = [id \in IDs |-> 0]
  /\ outcome' = [id \in IDs |-> "none"]
  /\ deactCalls' = {}
  /\ inflight' = 0
  /\ log' = [id \in IDs |-> {}]
  /\ wire' = FALSE
  /\ logged_in' = FALSE
  /\ session' = FALSE
  /\ logins' = 0
  /\ columns' = init_db_columns(columns)
  /\ UNCHANGED <<snapLen, resolvedAtSnap, notified, confirmed, stored,
                 everAvail, delivered, op>>

Next ==
  \/ SetupHook
  \/ OnReady
  \/ BeforeLoop
  \/ Tick
  \/ StartCycle
  \/ CheckReturns
  \/ SourceHangs
  \/ CheckTimeout
  \/ Deliver
  \/ SendReturns
  \/ AddRequest
  \/ Restart

Spec == Init /\ [][Next]_vars

\* Weak fairness of the steps that the session timeout and the HTTP
\* clients guarantee: an awaited call returns or is ended.
FairSpec ==
  /\ Spec
  /\ WF_vars(CheckReturns)
  /\ WF_vars(CheckTimeout)
  /\ WF_vars(SendReturns)

\* Weak fairness of the steps of the loop task as well: asyncio runs a
\* callback that is ready, and tasks.loop calls the coroutine once the
\* interval has elapsed.
LoopSpec ==
  /\ FairSpec
  /\ WF_vars(SetupHook)
  /\ WF_vars(OnReady)
  /\ WF_vars(BeforeLoop)
  /\ WF_vars(Tick)
  /\ WF_vars(StartCycle)

\* ------------------------------------------------- store-level harness
\* Value of column last_checked_at of row id, when the table has one.
LastCheckedAt(t, id) ==
  IF "last_checked_at" \in ColumnSet THEN t[id].last_checked_at ELSE "absent"

\* Integers a caller can pass as party_size.
PartySizes == {PartyMin - 1, PartyMin, PartyMax + 1}

\* Text of the party size field: digits, or something int() rejects.
PartyTexts ==
  {[numeric |-> TRUE, value |-> n] : n \in PartySizes}
    \cup {[numeric |-> FALSE, value |-> 0]}

\* Text of the date field: YYYY-MM-DD of a day counted from the day of the
\* submission, or a text strptime rejects.
DateTexts ==
  {[wellformed |-> TRUE, day |-> -1], [wellformed |-> TRUE, day |-> 1],
   [wellformed |-> FALSE, day |-> 0]}

MealTexts == {"dinner", "DINNER", "Brunch"}

MealPeriods == {"Dinner", "Brunch"}

\* user_data.get('available_meal_periods', ['Breakfast', 'Lunch', 'Dinner'])
AvailablePeriods == {"Breakfast", "Lunch", "Dinner"}

Capitalize_identity(m) == m

\* self.meal_period.value.lower().capitalize()
Capitalize(m) ==
  CASE m = "dinner" -> "Dinner"
    [] m = "DINNER" -> "Dinner"
    [] m = "Dinner" -> "Dinner"
    [] m = "Brunch" -> "Brunch"
    [] OTHER -> m

\* PartyModal.on_submit: the table and the message it answers with.
on_submit(t, user_id, p, d, m) ==
  IF ~p.numeric THEN [rows |-> t, reply |-> "invalid_party"]
  ELSE IF p.value < PartyMin \/ p.value > PartyMax
  THEN [rows |-> t, reply |-> "party_range"]
  ELSE IF Capitalize(m) \notin AvailablePeriods
  THEN [rows |-> t, reply |-> "meal_period"]
  ELSE IF ~d.wellformed
  THEN [rows |-> t, reply |-> "date_format"]
  ELSE [rows |-> add_request(t, user_id, p.value, d, Capitalize(m)),
        reply |-> "success"]

\* Database.add_request called with any arguments.
StoreAddRequest ==
  /\ Len(rows) < MaxRequests
  /\ \E p \in PartySizes, d \in DateTexts, m \in MealPeriods :
       rows' = add_request(rows, 1, p, d, m)
  /\ op' = [name |-> "add_request", id |-> Len(rows) + 1, prior |-> -1,
            result |-> "ok"]
  /\ UNCHANGED pollVars
  /\ UNCHANGED clientVars
  /\ UNCHANGED columns

\* The modal is submitted with any texts.
OnSubmit ==
  /\ Len(rows) < MaxRequests
  /\ \E p \in PartyTexts, d \in DateTexts, m \in MealTexts :
       LET r == on_submit(rows, 1, p, d, m)
       IN /\ rows' = r.rows
          /\ op' = [name |-> "on_submit", id |-> Len(r.rows), prior |-> -1,
                    result |-> r.reply, party |-> p, date |-> d, meal |-> m]
  /\ UNCHANGED pollVars
  /\ UNCHANGED clientVars
  /\ UNCHANGED columns

\* Database.deactivate_request called with any id.
StoreDeactivate ==
  /\ \E id \in IDs :
       /\ rows' = deactivate_request(rows, id)
       /\ op' = [name |-> "deactivate_request", id |-> id,
                 prior |-> IF id \in RowIds(rows) THEN rows[id].active ELSE -1,
                 result |-> "ok"]
  /\ UNCHANGED pollVars
  /\ UNCHANGED clientVars
  /\ UNCHANGED columns

\* Database() is built again on the same file.
StoreReopen ==
  /\ rows' = init_db(rows)
  /\ op' = [name |-> "init_db", id |-> 0, prior |-> -1, result |-> "ok"]
  /\ UNCHANGED pollVars
  /\ UNCHANGED clientVars
  /\ columns' = init_db_columns(columns)

\* my_requests: the rows it shows and the message it answers with.  It
\* opens a cursor and calls fetchall on it without executing a statement,
\* which returns the empty list.
my_requests(t, user_id) ==
  LET fetched == <<>>
  IN [shown |-> [k \in DOMAIN fetched |-> fetched[k].id],
      reply |-> IF fetched = <<>> THEN "no_active_requests" ELSE "embed"]

\* The /myrequests command is invoked by any user.
MyRequests ==
  /\ \E u \in Users :
       LET r == my_requests(rows, u)
       IN op' = [name |-> "my_requests", user_id |-> u, shown |-> r.shown,
                 reply |-> r.reply]
  /\ UNCHANGED rows
  /\ UNCHANGED pollVars
  /\ UNCHANGED clientVars
  /\ UNCHANGED columns

StoreNext ==
  \/ StoreAddRequest
  \/ OnSubmit
  \/ StoreDeactivate
  \/ StoreReopen
  \/ MyRequests

StoreSpec == Init /\ [][StoreNext]_vars

\* The file holds no table, or a table made before location_id existed,
\* when Database() is built.
SchemaInit ==
  /\ \E c \in {<<>>, LegacyColumns} : columns = init_db_columns(c)
  /\ rows = init_db(<<>>)
  /\ op = NoOp
  /\ PollInit

\* get_active_requests is called: the number of dicts it returns and, for
\* each key, the column its value is read from.
StoreRead ==
  /\ op' = [name |-> "get_active_requests",
            n |-> Len(get_active_requests(rows)),
            source |-> [k \in DOMAIN RowKeys |-> FieldSource(columns, RowKeys[k])]]
  /\ UNCHANGED <<rows, columns>>
  /\ UNCHANGED pollVars
  /\ UNCHANGED clientVars

SchemaNext ==
  \/ StoreAddRequest
  \/ StoreDeactivate
  \/ StoreReopen
  \/ StoreRead

SchemaSpec == SchemaInit /\ [][SchemaNext]_vars

\* ------------------------------------------------ DisneyWebScraper
RestaurantIds == {"ohana", "citricos"}
SlotTimes == {"5:00 PM", "6:30 PM"}
LocationIds == {"80007944", "80007539", "80010170"}

\* Ways a request to the source can fail: a status other than 200, an
\* exception of the session, a body that response.json() rejects.
FailureKinds == {"non200", "raises", "unparseable"}

\* One element of the list in a parsed availability body: a restaurant and
\* its available times.
Items == [restaurantId : RestaurantIds, times : SeqsUpTo(SlotTimes, MaxSlots)]

\* What the source answers to the request for one location.
Responses ==
  {[kind |-> "ok", items |-> s] : s \in SeqsUpTo(Items, MaxItems)}
    \cup {[kind |-> k, items |-> <<>>] : k \in FailureKinds}

\* s[:n]
Take(s, n) == SubSeq(s, 1, Min(Len(s), n))

\* The entries appended to available_times for one item of the body: those
\* of the item whose id is the requested restaurant_id.
ItemSlots(item, rid, loc) ==
  IF item.restaurantId = rid
  THEN [k \in 1..Len(item.times) |->
          [time |-> item.times[k], restaurant_id |-> rid, location |-> loc]]
  ELSE <<>>

RECURSIVE ItemsSlots(_, _, _, _)
\* `for item in availability_data`
ItemsSlots(items, k, rid, loc) ==
  IF k > Len(items) THEN <<>>
  ELSE ItemSlots(items[k], rid, loc) \o ItemsSlots(items, k + 1, rid, loc)

ResponseSlots_fallback(resp, rid, loc) ==
  IF resp.kind = "ok" THEN ItemsSlots(resp.items, 1, rid, loc)
  ELSE <<[time |-> "5:00 PM", restaurant_id |-> rid, location |-> loc]>>

\* The entries one response adds: a status other than 200 is logged, an
\* exception is caught by `except Exception` and the loop continues, a
\* JSONDecodeError is logged.
ResponseSlots(resp, rid, loc) ==
  IF resp.kind = "ok" THEN ItemsSlots(resp.items, 1, rid, loc) ELSE <<>>

RECURSIVE TryLocations(_, _, _, _)
\* `for location_id in all_location_ids`, left with break when a parsed
\* response leaves available_times non-empty.
TryLocations(resps, k, rid, acc) ==
  IF k > Len(resps) THEN acc
  ELSE LET found == acc \o ResponseSlots(resps[k], rid, k)
       IN IF resps[k].kind = "ok" /\ found # <<>>
          THEN found
          ELSE TryLocations(resps, k + 1, rid, found)

\* DisneyWebScraper.check_availability, resps being the answers of the
\* source to the requests for the locations, in order.
check_availability(resps, rid) ==
  Take(TryLocations(resps, 1, rid, <<>>), ResultLimit)

\* Calls of login that one call of check_availability makes: it creates
\* the session when there is none and goes on to the requests.
LoginCallsInCheck(li) == 0

\* Results of `await asyncio.wait_for(self.disney_api.login(), 30.0)`:
\* login returns True or False, wait_for raises TimeoutError, or another
\* exception leaves it.
LoginResults == {"ok", "fails", "timeout", "raises"}

\* A facility of a parsed facility-service body.
Facilities == [id : RestaurantIds, accepts_reservations : BOOLEAN]

FacilityResponses ==
  {[kind |-> "ok", items |-> s] : s \in SeqsUpTo(Facilities, MaxItems)}
    \cup {[kind |-> k, items |-> <<>>] : k \in FailureKinds}

\* get_fallback_restaurants builds comprehensive_fallback_data and then
\* evaluates `if not restaurants:`.  `restaurants` is assigned further down
\* in the function, so it is a local, and it has no value yet: the
\* statement raises UnboundLocalError for every location_id.
get_fallback_restaurants(location_id) ==
  [raised |-> TRUE, error |-> "UnboundLocalError", value |-> <<>>]

\* DisneyWebScraper.get_restaurants: the reservable restaurants of a parsed
\* response, or else the fallback; an exception of the fallback is caught
\* by the outer except, which calls the fallback again.
get_restaurants(resp, location_id) ==
  LET all == IF resp.kind = "ok" THEN resp.items ELSE <<>>
      reservable == SelectSeq(all, LAMBDA r : r.accepts_reservations)
      found == [k \in DOMAIN reservable |->
                  [id |-> reservable[k].id, location_id |-> location_id]]
      first == get_fallback_restaurants(location_id)
  IN IF found # <<>>
     THEN [raised |-> FALSE, error |-> "none",
           value |-> Take(found, DiscordLimit)]
     ELSE IF ~first.raised THEN first
     ELSE get_fallback_restaurants(location_id)

\* setup_hook as the client sees it: the login is attempted once, and
\* availability_checker is started whatever came of it.
ClientSetupHook ==
  /\ task = "unstarted"
  /\ \E r \in LoginResults :
       /\ logged_in' = (r = "ok")
       /\ op' = [name |-> "setup_hook", result |-> r]
  /\ session' = TRUE
  /\ logins' = logins + 1
  /\ task' = "before_loop"
  /\ UNCHANGED <<rows, ready, due, requests, i, pc, availability, running,
                 completed, snapLen, resolvedAtSnap, checks, outcome,
                 deactCalls, notified, confirmed, stored, everAvail,
                 inflight, log, wire, delivered>>
  /\ UNCHANGED columns

\* check_availability is called for any restaurant, the source answering
\* in any way.
ClientCheck ==
  /\ task # "unstarted"
  /\ \E rid \in RestaurantIds, resps \in SeqsUpTo(Responses, MaxLocations) :
       op' = [name |-> "check_availability", rid |-> rid,
              responses |-> resps, logged_in |-> logged_in,
              logins |-> LoginCallsInCheck(logged_in),
              result |-> check_availability(resps, rid)]
  /\ session' = TRUE
  /\ logins' = logins + LoginCallsInCheck(logged_in)
  /\ UNCHANGED <<logged_in, rows>>
  /\ UNCHANGED pollVars
  /\ UNCHANGED columns

\* get_restaurants is called for any location, the source answering in any
\* way.
ClientGetRestaurants ==
  /\ task # "unstarted"
  /\ \E l \in LocationIds, resp \in FacilityResponses :
       op' = [name |-> "get_restaurants", location_id |-> l,
              response |-> resp, result |-> get_restaurants(resp, l)]
  /\ session' = TRUE
  /\ UNCHANGED <<logged_in, logins, rows>>
  /\ UNCHANGED pollVars
  /\ UNCHANGED columns

ClientNext ==
  \/ ClientSetupHook
  \/ ClientCheck
  \/ ClientGetRestaurants

ClientSpec == Init /\ [][ClientNext]_vars

\* ------------------------------------------------ notification harness
\* A list returned by check_availability: n entries in ascending or
\* descending order of time, the entry at position bad (if any) without a
\* 'time' key.
SlotList(n, desc, bad) ==
  [k \in 1..n |-> [time |-> IF desc THEN n + 1 - k ELSE k,
                   kind |-> IF k = bad THEN "malformed" ELSE "slot"]]

SlotLists ==
  {SlotList(n, desc, bad) : n \in 0..MaxTimes, desc \in BOOLEAN, bad \in 0..MaxTimes}

Kinds(a) == [k \in DOMAIN a |-> a[k].kind]

TimesShown_all(a) == [k \in DOMAIN a |-> a[k].time]

\* [time['time'] for time in availability[:5]]: the times the embed lists.
TimesShown(a) == [k \in 1..Min(Len(a), DisplayCount) |-> a[k].time]

\* How one iteration of the for loop ends, availability being the list
\* check_availability returned, u what get_user returned, s what user.send
\* did and d what deactivate_request did.
IterationOutcome(a, u, s, d) ==
  IF ~HasAvailability(a) THEN "empty"
  ELSE IF ~UserFound(u) THEN "no_user"
  ELSE IF BuildRaises(Kinds(a)) THEN "build_error"
  ELSE IF s = "Forbidden" THEN "forbidden"
  ELSE IF s # "ok" THEN "send_error"
  ELSE IF ShouldDeactivate(s) /\ d = "ok" THEN "resolved"
  ELSE "store_error"

\* user.send was called in an iteration that ended with outcome o.
SendCalled(o) == o \in {"forbidden", "send_error", "resolved", "store_error"}

\* One request is stored, and the inputs of one iteration are chosen: the
\* list check_availability returns, and what get_user, user.send and
\* deactivate_request do.
DispatchInit ==
  /\ \E u \in Users :
       rows = add_request(init_db(<<>>), u, PartyMin,
                          [wellformed |-> TRUE, day |-> 1], "Dinner")
  /\ \E a \in SlotLists, u \in UserResults, s \in SendResults,
        d \in DbResults :
       op = [name |-> "pending", availability |-> a, user |-> u,
             send |-> s, store |-> d]
  /\ columns = init_db_columns(<<>>)
  /\ PollInit

\* The body of the for loop, from `if availability:` to the except
\* clauses, for an active request and the inputs chosen.
NotifyIteration ==
  /\ op.name = "pending"
  /\ \E k \in DOMAIN get_active_requests(rows) :
       LET request == get_active_requests(rows)[k]
           o == IterationOutcome(op.availability, op.user, op.send, op.store)
       IN /\ rows' = IF o = "resolved"
                     THEN deactivate_request(rows, request.id) ELSE rows
          /\ op' = [name |-> "notify", id |-> request.id,
                    availability |-> op.availability, user |-> op.user,
                    send |-> op.send, store |-> op.store, outcome |-> o,
                    sent |-> SendCalled(o),
                    times |-> IF SendCalled(o)
                              THEN TimesShown(op.availability) ELSE <<>>]
  /\ UNCHANGED pollVars
  /\ UNCHANGED clientVars
  /\ UNCHANGED columns

DispatchSpec == DispatchInit /\ [][NotifyIteration]_vars

TypeOK ==
  /\ Len(rows) <= MaxRequests
  /\ \A k \in DOMAIN rows :
       rows[k].id = k /\ rows[k].user_id \in Users /\ rows[k].active \in {0, 1}
  /\ task \in {"unstarted", "before_loop", "sleep", "iter", "failed"}
  /\ pc \in {"none", "check", "hung", "send"}
  /\ inflight \in 0..2
  /\ \A id \in IDs : log[id] \subseteq LogLevels
  /\ i \in 0..MaxRequests
  /\ running \in 0..2
  /\ \A id \in IDs : checks[id] \in 0..2 /\ outcome[id] \in Outcomes

\* ------------------------------------------------------------ properties
SentOk == {"resolved", "store_error"}
DeliveryFailed == {"no_user", "forbidden", "send_error"}
IterationErrors == {"check_error", "no_user", "build_error", "forbidden",
                    "send_error", "store_error"}

\* C1: a request's active flag goes from 1 to 0 only in the step in which
\* user.send for that request returned without error, and
\* deactivate_request is called only for a request whose send returned.
C1_ResolvedOnlyAfterSend ==
  /\ [](\A id \in RowIds(rows) :
          /\ rows[id].active = 0 => id \in confirmed
          /\ id \in deactCalls => outcome[id] \in SentOk)
  /\ [][\A id \in RowIds(rows) :
          (rows[id].active = 1 /\ rows'[id].active = 0) =>
            (pc = "send" /\ Cur.id = id /\ outcome'[id] = "resolved")]_vars

C1_Witness ==
  \E id \in RowIds(rows) : rows[id].active = 0 /\ outcome[id] = "resolved"

\* C2 as stated: user.send is never called for a request for which an
\* earlier user.send returned without error.
C2_NoSendAfterConfirmed ==
  (task = "iter" /\ pc = "send") => Cur.id \notin confirmed

\* C2 amended: user.send is never called for a request for which an
\* earlier user.send returned without error and the deactivate_request
\* that follows it returned without error; such a request is inactive.
C2_NoSendAfterStored ==
  /\ (task = "iter" /\ pc = "send") => Cur.id \notin stored
  /\ \A id \in stored : rows[id].active = 0

C2_Witness ==
  /\ task = "iter"
  /\ pc = "send"
  /\ stored \cap resolvedAtSnap # {}

\* C3: when delivery fails (send raises, or get_user returns None)
\* deactivate_request is not called, the request stays active, and the next
\* read of the active requests contains it.
C3_FailedDeliveryStaysActive ==
  /\ [](\A id \in IDs :
          outcome[id] \in DeliveryFailed =>
            /\ id \notin deactCalls
            /\ id \in RowIds(rows)
            /\ rows[id].active = 1)
  /\ [][(task = "sleep" /\ task' = "iter") =>
          \A id \in IDs :
            outcome[id] \in DeliveryFailed => id \in RowIds(requests')]_vars

C3_Witness ==
  /\ task = "sleep"
  /\ completed
  /\ \E id \in RowIds(requests) : outcome[id] = "forbidden"
  /\ \E id \in RowIds(requests) : outcome[id] = "no_user"

\* C4: a request for which every check returned an empty list is active
\* and no send was made for it, after any number of cycles.
C4_NoSlotsStaysActive ==
  \A id \in RowIds(rows) :
    id \notin everAvail => (rows[id].active = 1 /\ id \notin notified)

C4_Witness ==
  /\ completed
  /\ \E id \in RowIds(requests), other \in resolvedAtSnap :
       id < other /\ id \notin everAvail /\ outcome[id] = "empty"

\* C5: a request that was inactive at a read of the active requests is not
\* in the list of that execution or of any later one, is not checked and
\* no send is made for it.
C5_ResolvedNotPolled ==
  task = "iter" =>
    /\ \A id \in resolvedAtSnap :
         id \notin RowIds(requests) /\ checks[id] = 0 /\ outcome[id] = "none"
    /\ Cur.id \notin resolvedAtSnap

C5_Witness ==
  /\ task = "iter"
  /\ resolvedAtSnap # {}

\* C6: the active flag of a request never goes from 0 back to 1, and no row
\* is removed.
C6_Monotonic ==
  [][\A id \in RowIds(rows) :
      rows[id].active = 0 => (id \in RowIds(rows') /\ rows'[id].active = 0)]_vars

C6_Witness ==
  /\ task = "unstarted"
  /\ \E id \in RowIds(rows) : rows[id].active = 0 /\ Len(rows) > id

\* C7: at most one execution of availability_checker is in progress, and an
\* execution starts only when none is in progress, also when the interval
\* elapsed while the previous one was running.
C7_NoOverlap ==
  /\ [](running <= 1 /\ (task = "iter" <=> running = 1))
  /\ [][running' > running => (running = 0 /\ pc = "none")]_vars

C7_Witness ==
  /\ task = "iter"
  /\ running = 1
  /\ due
  /\ i = Len(requests)
  /\ Len(requests) > 1

\* C8: the active requests are read once, when the execution starts: a
\* request added later is not in the list and is not checked in that
\* execution; the next read contains every active request, and every
\* request of a list is checked by the end of its execution.
C8_SnapshotOnce ==
  /\ [](task = "iter" =>
          \A id \in RowIds(rows) :
            id > snapLen => (id \notin RowIds(requests) /\ checks[id] = 0))
  /\ [](completed => \A id \in RowIds(requests) : checks[id] >= 1)
  /\ [][(task = "iter" /\ task' = "iter") => requests' = requests]_vars
  /\ [][(task = "sleep" /\ task' = "iter") =>
          \A id \in RowIds(rows) :
            rows[id].active = 1 => id \in RowIds(requests')]_vars

C8_Witness ==
  /\ task = "iter"
  /\ Len(rows) > snapLen
  /\ snapLen > 0

\* C9: an exception raised in the iteration of one request is caught in
\* that iteration: the loop task does not end, the next request of the list
\* is checked, and at the end every request of the list was checked.
C9_FailureIsolation ==
  /\ [](completed =>
          \A id \in RowIds(requests) : outcome[id] # "none" /\ checks[id] >= 1)
  /\ [][task = "iter" => task' \in {"iter", "sleep", "unstarted"}]_vars
  /\ [][(task = "iter" /\ i < Len(requests) /\ outcome[Cur.id] = "none"
           /\ outcome'[Cur.id] \in IterationErrors) =>
          (task' = "iter" /\ i' = i + 1 /\ pc' = "check"
             /\ checks'[requests[i + 1].id] = 1)]_vars

C9_Witness ==
  /\ completed
  /\ Len(requests) > 1
  /\ \A id \in RowIds(requests) : outcome[id] = "check_error"

\* C10: in a completed execution check_availability was called once for
\* each request of the list and for no other; it is never called twice in
\* one execution, and a request whose check failed stays active.
C10_CheckedExactlyOnce ==
  /\ \A id \in IDs : checks[id] <= 1
  /\ completed =>
       \A id \in IDs : checks[id] = (IF id \in RowIds(requests) THEN 1 ELSE 0)
  /\ \A id \in IDs :
       outcome[id] = "check_error" => (id \in RowIds(rows) /\ rows[id].active = 1)

C10_Witness ==
  /\ completed
  /\ \E id \in RowIds(requests) : outcome[id] = "check_error" /\ checks[id] = 1
  /\ \E id \in RowIds(requests) : outcome[id] = "resolved" /\ checks[id] = 1
\* C11: for every limit L >= 1 the number of check_availability calls of
\* the poll loop that are in flight never exceeds L.
C11_InFlightBounded ==
  \A L \in 1..(MaxRequests + 1) : inflight <= L

C11_Witness ==
  /\ inflight = 1
  /\ pc = "check"
  /\ Len(requests) > 1

\* C12: after a completed execution every request of the list has a
\* last_checked_at, set by the attempt of that execution.
C12_LastCheckedUpdated ==
  (completed /\ requests # <<>>) =>
    \A id \in RowIds(requests) : LastCheckedAt(rows, id) # "absent"

\* C13: a check whose source never answers is ended by the timeout and
\* counts as no match: no send, no change of the table, the next request
\* of the list is checked, and the execution ends (or the process does).
C13_HungCheckEnds ==
  /\ [][(task = "iter" /\ pc = "hung" /\ pc' # "hung" /\ task' # "unstarted") =>
          /\ rows' = rows
          /\ notified' = notified
          /\ pc' # "send"
          /\ outcome'[Cur.id] = "timeout"
          /\ IF i < Len(requests)
             THEN task' = "iter" /\ i' = i + 1 /\ pc' = "check"
             ELSE completed']_vars
  /\ (task = "iter" /\ pc = "hung") ~> (completed \/ task = "unstarted")

C13_Witness ==
  /\ completed
  /\ Len(requests) > 1
  /\ outcome[requests[1].id] = "timeout"
  /\ checks[requests[2].id] = 1

ValidCriteria(r) ==
  /\ r.party_size \in PartyMin..PartyMax
  /\ r.requested_date.wellformed
  /\ r.meal_period \in AvailablePeriods

\* C14: a call of add_request either stored a record whose party size,
\* date and meal period are within bounds, or failed with ValidationError.
C14_AddRejectsInvalid ==
  op.name = "add_request" =>
    IF op.result = "ok"
    THEN op.id \in RowIds(rows) /\ ValidCriteria(rows[op.id])
    ELSE op.result = "ValidationError"

\* C15: a submission that was accepted stored a date that is not before
\* the day of the submission.
C15_NoPastDate ==
  (op.name = "on_submit" /\ op.result = "success") =>
    rows[op.id].requested_date.day >= 0

\* C16: deactivate_request raises no error, leaves the table as it was
\* when the request is already inactive, and applied again to its own
\* result changes nothing.
C16_DeactivateIdempotent ==
  [][op'.name = "deactivate_request" =>
       /\ op'.result = "ok"
       /\ op'.prior = 0 => rows' = rows
       /\ deactivate_request(rows', op'.id) = rows'
       /\ op'.id \in RowIds(rows) => rows'[op'.id].active = 0]_vars

C16_Witness ==
  /\ op.name = "deactivate_request"
  /\ op.prior = 0
  /\ rows[op.id].active = 0
  /\ Len(rows) > 1

\* C17: when deactivate_request raises after send returned, an error is
\* logged and no success, the request stays active, the loop goes on with
\* the next request, and the next read of the active requests contains it.
C17_StoreFailureReported ==
  /\ [](\A id \in IDs :
          outcome[id] = "store_error" =>
            /\ "error" \in log[id]
            /\ "info" \notin log[id]
            /\ id \in confirmed
            /\ rows[id].active = 1)
  /\ [][(task = "iter" /\ pc = "send" /\ task' # "unstarted"
           /\ outcome'[Cur.id] = "store_error") =>
          IF i < Len(requests)
          THEN task' = "iter" /\ i' = i + 1 /\ pc' = "check"
          ELSE completed']_vars
  /\ [][(task = "sleep" /\ task' = "iter") =>
          \A id \in IDs :
            outcome[id] = "store_error" => id \in RowIds(requests')]_vars

C17_Witness ==
  /\ completed
  /\ Len(requests) > 1
  /\ outcome[requests[1].id] = "store_error"
  /\ outcome[requests[2].id] # "none"

\* C18: the active requests are read and check_availability is called
\* only after wait_until_ready has returned.
C18_NoCycleBeforeReady ==
  (task \in {"iter", "failed"} \/ completed \/ inflight > 0
     \/ \E id \in IDs : checks[id] > 0) => ready

C18_Witness ==
  /\ task = "before_loop"
  /\ ~ready
  /\ \E k \in DOMAIN rows : rows[k].active = 1

\* C19: when the process has ended, every request whose message reached
\* its owner is inactive.
C19_NoOrphanedDelivery ==
  task = "unstarted" =>
    \A id \in delivered : id \in RowIds(rows) /\ rows[id].active = 0

\* C20: a restart leaves every stored request as it was, so the active
\* requests are the same after it as before it.
C20_RestartKeepsRows ==
  [][(task # "unstarted" /\ task' = "unstarted") =>
       /\ rows' = rows
       /\ get_active_requests(rows') = get_active_requests(rows)]_vars

C20_Witness ==
  /\ task = "unstarted"
  /\ \E k \in DOMAIN rows : rows[k].active = 0
  /\ \E k \in DOMAIN rows : rows[k].active = 1

\* Outcomes of an iteration that break the premises of C21: the source
\* returned no slot or a slot without a time, or the send that was
\* attempted failed; and, granted on top of them, the store refused the
\* write.
PremiseBroken == {"empty", "check_error", "timeout", "build_error",
                  "forbidden", "send_error", "store_error"}

\* C21: a stored request for which every check returns a slot and every
\* send that is attempted succeeds is eventually notified and inactive,
\* in a process that is not ended and whose reads and writes of the table
\* succeed.
C21_EventuallyNotified ==
  \A id \in IDs :
    \/ [](id \notin RowIds(rows))
    \/ <>(\/ outcome[id] \in PremiseBroken
          \/ task = "failed"
          \/ task = "unstarted" /\ id \in RowIds(rows)
          \/ id \in RowIds(rows) /\ rows[id].active = 0 /\ id \in notified)

\* C22: check_availability returns an empty list when every answer of the
\* source is a status other than 200, an exception or an unparseable body,
\* and every slot it returns is a time of an item for the requested
\* restaurant in a parsed answer of the source.
C22_NoFabricatedMatch ==
  op.name = "check_availability" =>
    /\ (\A j \in DOMAIN op.responses : op.responses[j].kind \in FailureKinds)
         => op.result = <<>>
    /\ \A k \in DOMAIN op.result :
         \E j \in DOMAIN op.responses :
           /\ op.responses[j].kind = "ok"
           /\ op.result[k].location = j
           /\ \E n \in DOMAIN op.responses[j].items :
                /\ op.responses[j].items[n].restaurantId = op.rid
                /\ \E x \in DOMAIN op.responses[j].items[n].times :
                     op.responses[j].items[n].times[x] = op.result[k].time

C22_Witness ==
  /\ op.name = "check_availability"
  /\ Len(op.responses) = 2
  /\ op.responses[1].kind \in FailureKinds
  /\ op.result # <<>>

\* C23: /myrequests shows exactly the stored requests of the invoking user
\* whose active flag is 1, one entry each, and answers that there are none
\* only when there are none.
C23_MyRequestsExact ==
  op.name = "my_requests" =>
    LET mine == SelectSeq(rows, LAMBDA r : r.user_id = op.user_id /\ r.active = 1)
    IN /\ op.shown = [k \in DOMAIN mine |-> mine[k].id]
       /\ op.reply = "no_active_requests" <=> mine = <<>>

\* C24: for a list of n slots, n below, equal to or above the display
\* count, and an owner that is found, the message is sent and lists the
\* first min(n, 5) times in the order of the list; when send returned the
\* request is deactivated, and it is inactive when the store accepted it.
C24_TruncationKeepsOutcome ==
  (/\ op.name = "notify"
   /\ op.availability # <<>>
   /\ \A k \in DOMAIN op.availability : op.availability[k].kind = "slot"
   /\ UserFound(op.user)) =>
    /\ op.sent
    /\ Len(op.times) = (IF Len(op.availability) < 5
                        THEN Len(op.availability) ELSE 5)
    /\ \A k \in DOMAIN op.times : op.times[k] = op.availability[k].time
    /\ op.send = "ok" => op.outcome \in {"resolved", "store_error"}
    /\ (op.send = "ok" /\ op.store = "ok") =>
         (op.outcome = "resolved" /\ rows[op.id].active = 0)
    /\ op.send # "ok" => rows[op.id].active = 1

C24_Witness ==
  /\ op.name = "notify"
  /\ Len(op.availability) > 5
  /\ op.availability[1].time > op.availability[2].time
  /\ Len(op.times) = 5
  /\ op.outcome = "resolved"
  /\ rows[op.id].active = 0

\* The meal period texts that, lower-cased and then capitalised, name one
\* of the available meal periods, with their normal form.
NormalForm == [dinner |-> "Dinner", DINNER |-> "Dinner"]

\* C25: on_submit appends one request, with the parsed party size, the
\* date and the normalised meal period, when the party size is an integer
\* in 1..20, the normalised meal period is available and the date parses;
\* otherwise it answers with a rejection and the table is unchanged.
C25_SubmitValidates ==
  [][op'.name = "on_submit" =>
       IF /\ op'.party.numeric
          /\ op'.party.value \in PartyMin..PartyMax
          /\ op'.meal \in DOMAIN NormalForm
          /\ op'.date.wellformed
       THEN /\ op'.result = "success"
            /\ Len(rows') = Len(rows) + 1
            /\ SubSeq(rows', 1, Len(rows)) = rows
            /\ rows'[Len(rows')].party_size = op'.party.value
            /\ rows'[Len(rows')].requested_date = op'.date
            /\ rows'[Len(rows')].meal_period = NormalForm[op'.meal]
            /\ rows'[Len(rows')].active = 1
       ELSE /\ op'.result \in {"invalid_party", "party_range", "meal_period",
                                "date_format"}
            /\ rows' = rows]_vars

C25_Witness ==
  /\ op.name = "on_submit"
  /\ op.result = "success"
  /\ op.meal = "DINNER"
  /\ Len(rows) > 1
  /\ rows[Len(rows)].meal_period = "Dinner"

\* Outcomes of an iteration whose check gave no slot: it returned an empty
\* list, it raised, or it was ended by the timeout.
NoMatch == {"empty", "check_error", "timeout"}

\* C26: an iteration whose check failed leaves the table, the sends made
\* and the position of the loop exactly as the iteration whose check
\* returned an empty list leaves them: nothing is sent or written, and the
\* loop goes on with the next request or ends the execution.
C26_FailedLikeEmpty ==
  [][(task = "iter" /\ pc \in {"check", "hung"}
        /\ outcome'[Cur.id] \in NoMatch) =>
       /\ rows' = rows
       /\ notified' = notified
       /\ confirmed' = confirmed
       /\ delivered' = delivered
       /\ deactCalls' = deactCalls
       /\ requests' = requests
       /\ <<task', i', pc'>> = (IF i < Len(requests)
                                THEN <<"iter", i + 1, "check">>
                                ELSE <<"sleep", 0, "none">>)
       /\ completed' = (i = Len(requests))]_vars

C26_Witness ==
  /\ completed
  /\ Len(requests) > 1
  /\ outcome[requests[1].id] = "check_error"
  /\ outcome[requests[2].id] = "empty"
  /\ notified = {}

\* C27: setup_hook starts availability_checker whatever the login did, and
\* a call of check_availability made while the client is not logged in
\* calls login.
C27_LoginRetried ==
  /\ op.name = "setup_hook" => task = "before_loop"
  /\ (op.name = "check_availability" /\ ~op.logged_in) => op.logins > 0

\* The facility API call gave no reservable restaurant.
ApiFailed(resp) ==
  \/ resp.kind \in FailureKinds
  \/ \A k \in DOMAIN resp.items : ~resp.items[k].accepts_reservations

\* C28: when the facility API call fails, get_restaurants does not raise
\* and returns a non-empty list whose entries carry the requested
\* location_id.
C28_FallbackOnFailure ==
  (op.name = "get_restaurants" /\ ApiFailed(op.response)) =>
    /\ ~op.result.raised
    /\ op.result.value # <<>>
    /\ \A k \in DOMAIN op.result.value :
         op.result.value[k].location_id = op.location_id

\* C29: every dict get_active_requests returns holds, under each key, the
\* value of the column of that name, which is the value add_request stored
\* there, for a table made by init_db and for an older table to which
\* init_db added location_id.
C29_RoundTrip ==
  (op.name = "get_active_requests" /\ op.n > 0) =>
    \A k \in DOMAIN RowKeys :
      RowKeys[k] # "created_at" => op.source[k] = RowKeys[k]

\* C30: after get_active_requests raised at the start of an execution, a
\* later execution of availability_checker is started by the loop, unless
\* the process ends first.
C30_PollingContinues ==
  (task = "failed") ~> (task \in {"sleep", "iter", "unstarted"})
====
